---- MODULE Spec2Model ----
(***************************************************************************)
(* Model of proxy-delay-rs (src/src/main.rs): the latency probe of one     *)
(* SOCKS node (test_node_latency), the sequential probing loop and the     *)
(* ranking sort of main.                                                   *)
(*                                                                         *)
(* Latencies are f64 values.  They are modelled as IEEE-754 binary64       *)
(* numbers: a binary exponent and a 53-bit significand, every arithmetic   *)
(* result rounded to nearest, ties to even.  Only the values the program   *)
(* can produce are represented: +0.0, positive normal numbers and          *)
(* f64::INFINITY (no negative number, NaN or subnormal arises from         *)
(* elapsed microseconds divided by 1000, their sums and their means).      *)
(***************************************************************************)
EXTENDS Integers, Sequences, FiniteSets, TLC

(***************************************************************************)
(* f64                                                                     *)
(***************************************************************************)

\* f64::MANTISSA_DIGITS: significand bits of a binary64 number.
MANTISSA_DIGITS == 53

\* The significand is kept in two limbs, lo holding its LoBits low bits, so
\* that every intermediate value fits TLC's 32-bit integers.
LoBits == 27

HiBits == MANTISSA_DIGITS - LoBits

LoBase == 2 ^ LoBits

\* A finite positive f64 is [exp |-> e, hi |-> h, lo |-> l] with significand
\* m = h * 2^LoBits + l, 2^52 <= m < 2^53, and value m * 2^(e - 53).
\* Zero and infinity carry a zero significand.
F64_ZERO == [inf |-> FALSE, exp |-> 0, hi |-> 0, lo |-> 0]

\* f64::INFINITY, the sentinel pushed for a failed attempt.
INFINITY == [inf |-> TRUE, exp |-> 0, hi |-> 0, lo |-> 0]

\* f64::is_infinite
is_infinite(l) == l.inf

IsZero(x) == ~x.inf /\ x.hi = 0 /\ x.lo = 0

\* Round to nearest, ties to even: hi:lo are the first MANTISSA_DIGITS bits of
\* the exact value, `up` says the discarded tail is above one half unit in
\* the last place, `tie` that it is exactly one half.
RoundNearestEven(exp, hi, lo, up, tie) ==
    IF up \/ (tie /\ lo % 2 = 1)
    THEN IF lo + 1 < LoBase
         THEN [inf |-> FALSE, exp |-> exp, hi |-> hi, lo |-> lo + 1]
         ELSE IF hi + 1 < 2 ^ HiBits
              THEN [inf |-> FALSE, exp |-> exp, hi |-> hi + 1, lo |-> 0]
              ELSE [inf |-> FALSE, exp |-> exp + 1, hi |-> 2 ^ (HiBits - 1), lo |-> 0]
    ELSE [inf |-> FALSE, exp |-> exp, hi |-> hi, lo |-> lo]

\* Scale num/den into [1/2, 1): the result's num/den * 2^exp is the input.
RECURSIVE Normalize(_, _, _)
Normalize(num, den, exp) ==
    IF num >= den THEN Normalize(num, 2 * den, exp + 1)
    ELSE IF 2 * num < den THEN Normalize(2 * num, den, exp - 1)
    ELSE [num |-> num, den |-> den, exp |-> exp]

\* The next n bits of the quotient num/den (num < den), appended to acc.
RECURSIVE RatioBits(_, _, _, _)
RatioBits(num, den, n, acc) ==
    IF n = 0 THEN [bits |-> acc, rem |-> num]
    ELSE IF 2 * num >= den
         THEN RatioBits(2 * num - den, den, n - 1, 2 * acc + 1)
         ELSE RatioBits(2 * num, den, n - 1, 2 * acc)

\* (num as f64) / (den as f64) for integers that are exact in f64: the
\* correctly rounded quotient.
F64Ratio(num, den) ==
    IF num = 0 THEN F64_ZERO
    ELSE LET n == Normalize(num, den, 0)
             h == RatioBits(n.num, n.den, HiBits, 0)
             l == RatioBits(h.rem, n.den, LoBits, 0)
         IN  RoundNearestEven(n.exp, h.bits, l.bits, 2 * l.rem > n.den, 2 * l.rem = n.den)

\* The significand hi:lo shifted right by d bits (0 <= d <= MANTISSA_DIGITS).
ShiftRight(hi, lo, d) ==
    IF d < LoBits
    THEN [hi |-> hi \div (2 ^ d),
          lo |-> (lo \div (2 ^ d)) + (hi % (2 ^ d)) * (2 ^ (LoBits - d))]
    ELSE [hi |-> 0, lo |-> hi \div (2 ^ (d - LoBits))]

\* Bit k (0 the lowest) of the significand hi:lo.
BitAt(hi, lo, k) ==
    IF k < LoBits THEN (lo \div (2 ^ k)) % 2 ELSE (hi \div (2 ^ (k - LoBits))) % 2

\* Whether any of the k lowest bits of the significand hi:lo is set.
LowBitsSet(hi, lo, k) ==
    IF k <= LoBits THEN lo % (2 ^ k) # 0 ELSE lo # 0 \/ hi % (2 ^ (k - LoBits)) # 0

\* f64 addition of two non-negative numbers; a sum with an infinite term is
\* infinite.
F64Add(x, y) ==
    IF x.inf \/ y.inf THEN INFINITY
    ELSE IF IsZero(x) THEN y
    ELSE IF IsZero(y) THEN x
    ELSE LET a == IF x.exp >= y.exp THEN x ELSE y
             b == IF x.exp >= y.exp THEN y ELSE x
             d == a.exp - b.exp
         IN  IF d > MANTISSA_DIGITS THEN a
             ELSE LET q == ShiftRight(b.hi, b.lo, d)
                      guard == d > 0 /\ BitAt(b.hi, b.lo, d - 1) = 1
                      sticky == d > 1 /\ LowBitsSet(b.hi, b.lo, d - 1)
                      los == a.lo + q.lo
                      his == a.hi + q.hi + (los \div LoBase)
                      lo == los % LoBase
                  IN  IF his < 2 ^ HiBits
                      THEN RoundNearestEven(a.exp, his, lo, guard /\ sticky, guard /\ ~sticky)
                      ELSE RoundNearestEven(a.exp + 1, his \div 2,
                                            (lo \div 2) + (his % 2) * (2 ^ (LoBits - 1)),
                                            lo % 2 = 1 /\ (guard \/ sticky),
                                            lo % 2 = 1 /\ ~guard /\ ~sticky)

\* x / (n as f64) for a non-negative x and a small positive integer n (exact
\* in f64): the correctly rounded quotient, infinite for an infinite x.
F64DivInt(x, n) ==
    IF x.inf THEN INFINITY
    ELSE IF IsZero(x) THEN F64_ZERO
    ELSE LET qh == x.hi \div n
             r1 == x.hi % n
             ql == (r1 * LoBase + x.lo) \div n
             r2 == (r1 * LoBase + x.lo) % n
             \* the quotient qh:ql has lz leading zero bits
             lz == CHOOSE k \in 0..HiBits : 2 ^ (HiBits - 1) <= qh * (2 ^ k)
                                            /\ qh * (2 ^ k) < 2 ^ HiBits
             los == ql * (2 ^ lz) + ((r2 * (2 ^ lz)) \div n)
             r3 == (r2 * (2 ^ lz)) % n
         IN  RoundNearestEven(x.exp - lz, qh * (2 ^ lz) + (los \div LoBase), los % LoBase,
                              2 * r3 > n, 2 * r3 = n)

\* x < y on non-negative f64 values (none is NaN).
F64Less(x, y) ==
    IF x.inf THEN FALSE
    ELSE IF y.inf THEN TRUE
    ELSE IF IsZero(y) THEN FALSE
    ELSE IF IsZero(x) THEN TRUE
    ELSE IF x.exp # y.exp THEN x.exp < y.exp
    ELSE IF x.hi # y.hi THEN x.hi < y.hi
    ELSE x.lo < y.lo

\* f64::partial_cmp(..).unwrap(): no operand is NaN, so it is never None.
partial_cmp(x, y) ==
    IF F64Less(x, y) THEN "Less"
    ELSE IF F64Less(y, x) THEN "Greater"
    ELSE "Equal"

F64Le(x, y) == ~F64Less(y, x)

(***************************************************************************)
(* Bounds                                                                  *)
(***************************************************************************)

\* Most candidates in socks_nodes.
MaxNodes == 3

\* The largest test_count.
MaxTestCount == 4

\* Most timed attempts of a whole run: Len(socks_nodes) * test_count.
MaxTotalAttempts == 9

\* Elapsed times of a successful attempt are 0.1 ms, 0.2 ms, ... up to
\* MaxElapsed tenths of a millisecond.
MaxElapsed == 2

\* start.elapsed().as_micros() of a successful attempt.
Micros == {100 * k : k \in 1..MaxElapsed}

(***************************************************************************)
(* test_node_latency: the pure parts                                       *)
(***************************************************************************)

\* elapsed_ms = start.elapsed().as_micros() as f64 / 1000.
ElapsedMsOf(us) == F64Ratio(us, 1000)

elapsed_ms == [us \in Micros |-> ElapsedMsOf(us)]

\* LatencyResult
Success(median, average, minimum, maximum) ==
    [kind |-> "Success", median |-> median, average |-> average,
     minimum |-> minimum, maximum |-> maximum]

Unstable(valid, total) == [kind |-> "Unstable", valid |-> valid, total |-> total]

AllFailed == [kind |-> "AllFailed"]

SessionError(msg) == [kind |-> "SessionError", msg |-> msg]

\* Placeholder of `latency` while no call has returned.
NoResult == [kind |-> "None"]

\* x inserted into the ascending sequence `sorted`, before the first element
\* that partial_cmp says is greater.
RECURSIVE InsertAscending(_, _)
InsertAscending(sorted, x) ==
    IF sorted = <<>> THEN <<x>>
    ELSE IF partial_cmp(x, Head(sorted)) = "Less" THEN <<x>> \o sorted
    ELSE <<Head(sorted)>> \o InsertAscending(Tail(sorted), x)

\* sorted.sort_unstable_by(|a, b| a.partial_cmp(b).unwrap()): equal f64
\* values are indistinguishable, so the ascending order is unique.
RECURSIVE sort_unstable_by(_)
sort_unstable_by(v) ==
    IF v = <<>> THEN <<>>
    ELSE InsertAscending(sort_unstable_by(SubSeq(v, 1, Len(v) - 1)), v[Len(v)])

\* sorted.iter().sum::<f64>(): the left fold of f64 additions from zero.
RECURSIVE SumFrom(_, _)
SumFrom(v, acc) ==
    IF v = <<>> THEN acc ELSE SumFrom(Tail(v), F64Add(acc, Head(v)))

sum(v) == SumFrom(v, F64_ZERO)

\* The vector without the filter: the sentinels stay among the samples.
ValidLatenciesUnfiltered(latencies) == latencies

\* latencies.into_iter().filter(|&l| !l.is_infinite()).collect()
valid_latencies(latencies) == SelectSeq(latencies, LAMBDA l : ~is_infinite(l))

\* The lower of the two middle elements for an even count.
MedianLowerMiddle(sorted) == sorted[((Len(sorted) - 1) \div 2) + 1]

\* sorted[sorted.len() / 2] (TLA+ sequences start at 1)
Median(sorted) == sorted[(Len(sorted) \div 2) + 1]

\* sorted.iter().sum::<f64>() / sorted.len() as f64
Average(sorted) == F64DivInt(sum(sorted), Len(sorted))

\* The statistics of at least three valid latencies.
Statistics(valid) ==
    LET sorted == sort_unstable_by(valid)
    IN  Success(Median(sorted), Average(sorted), sorted[1], sorted[Len(sorted)])

\* Fewer valid samples than this is Unstable.
MinValid == 3

\* Process results without the AllFailed test of its first lines.
ProcessResultsNoAllFailed(latencies, count) ==
    LET valid == valid_latencies(latencies)
    IN  IF Len(valid) < MinValid
        THEN Unstable(Len(valid), count)
        ELSE Statistics(valid)

\* Process results with the attempts made as Unstable's total.
ProcessResultsTotalIssued(latencies, count) ==
    IF latencies = <<>> \/ \A k \in 1..Len(latencies) : is_infinite(latencies[k])
    THEN AllFailed
    ELSE LET valid == valid_latencies(latencies)
         IN  IF Len(valid) < MinValid
             THEN Unstable(Len(valid), Len(latencies))
             ELSE Statistics(valid)

\* Process results with Unstable's two fields in the other order.
ProcessResultsFieldsSwapped(latencies, count) ==
    IF latencies = <<>> \/ \A k \in 1..Len(latencies) : is_infinite(latencies[k])
    THEN AllFailed
    ELSE LET valid == valid_latencies(latencies)
         IN  IF Len(valid) < MinValid
             THEN Unstable(count, Len(valid))
             ELSE Statistics(valid)

\* Process results that refuses statistics to a session with a failure.
ProcessResultsStrict(latencies, count) ==
    IF latencies = <<>> \/ \A k \in 1..Len(latencies) : is_infinite(latencies[k])
    THEN AllFailed
    ELSE LET valid == valid_latencies(latencies)
         IN  IF Len(valid) < MinValid \/ Len(valid) < Len(latencies)
             THEN Unstable(Len(valid), count)
             ELSE Statistics(valid)

\* "Process results": what test_node_latency returns after its loop.
ProcessResults(latencies, count) ==
    IF latencies = <<>> \/ \A k \in 1..Len(latencies) : is_infinite(latencies[k])
    THEN AllFailed
    ELSE LET valid == valid_latencies(latencies)
         IN  IF Len(valid) < MinValid
             THEN Unstable(Len(valid), count)
             ELSE Statistics(valid)

(***************************************************************************)
(* main: the ranking                                                       *)
(***************************************************************************)

\* The comparator without its two arms for a Success against another kind.
CompareMedianOnly(a, b) ==
    IF a.kind = "Success" /\ b.kind = "Success" THEN partial_cmp(a.median, b.median)
    ELSE "Equal"

\* The comparator of results.sort_by, on two rows' results.
Compare(a, b) ==
    IF a.kind = "Success" /\ b.kind = "Success" THEN partial_cmp(a.median, b.median)
    ELSE IF a.kind = "Success" THEN "Less"
    ELSE IF b.kind = "Success" THEN "Greater"
    ELSE "Equal"

\* Row x inserted before the first row it does not follow: ahead of the
\* rows it compares equal to.
RECURSIVE InsertRowBeforeEquals(_, _)
InsertRowBeforeEquals(sorted, x) ==
    IF sorted = <<>> THEN <<x>>
    ELSE IF Compare(x.result, Head(sorted).result) # "Greater" THEN <<x>> \o sorted
    ELSE <<Head(sorted)>> \o InsertRowBeforeEquals(Tail(sorted), x)

\* Row x inserted into the sorted rows, after every row it does not precede.
RECURSIVE InsertRow(_, _)
InsertRow(sorted, x) ==
    IF sorted = <<>> THEN <<x>>
    ELSE IF Compare(x.result, Head(sorted).result) = "Less" THEN <<x>> \o sorted
    ELSE <<Head(sorted)>> \o InsertRow(Tail(sorted), x)

\* results.sort_by(..): slice::sort_by is a stable sort, so its result is the
\* one a stable insertion sort produces.
RECURSIVE sort_by(_)
sort_by(rows) ==
    IF rows = <<>> THEN <<>>
    ELSE InsertRow(sort_by(SubSeq(rows, 1, Len(rows) - 1)), rows[Len(rows)])

(***************************************************************************)
(* State                                                                   *)
(***************************************************************************)

VARIABLES
    socks_nodes,  \* main: the candidates, a sequence of [tag, port]
    test_count,   \* the test_count argument of test_node_latency
    idx,          \* main: the 1-based position of the probing loop
    results,      \* main: the rows [tag, port, result]
    latency,      \* main: what the last call of test_node_latency returned
    pc,           \* the control position
    client,       \* test_node_latency: "none", "failed" or "built"
    latencies,    \* test_node_latency: the recorded latencies
    i,            \* test_node_latency: the loop variable
    sent,         \* history: requests issued by the call, [warmup, timed]
    session,      \* history: the call's attempt outcomes, Timed(us) or Failed
    probed        \* history: the rows in the order they were pushed

vars == <<socks_nodes, test_count, idx, results, latency, pc, client, latencies, i,
          sent, session, probed>>

\* What main keeps across the calls, and never changes inside one.
mainVars == <<socks_nodes, test_count, idx, results, probed>>

NoneSent == [warmup |-> 0, timed |-> 0]

\* Attempt outcomes as the history records them.
Timed(us) == [kind |-> "Timed", us |-> us]

FailedAttempt == [kind |-> "Failed", us |-> 0]

\* The k-th candidate of the configuration: candidates 1 and 2 share a tag,
\* candidates 1 and 3 share a port.
Inbound(k) ==
    [tag |-> IF k % 3 = 0 THEN "us" ELSE "jp", port |-> 1080 + ((k + 1) % 2)]

\* The candidate lists of n nodes: distinct candidates, or the same one n
\* times (tags and ports need not be unique).
NodeLists(n) == {[k \in 1..n |-> Inbound(k)], [k \in 1..n |-> Inbound(1)]}

\* main when the probing loop is reached: socks_nodes is not empty.  The
\* count main passes is a literal; the model takes it as the parameter it is
\* to test_node_latency.
Init ==
    /\ \E n \in 1..MaxNodes : socks_nodes \in NodeLists(n)
    /\ test_count \in {c \in 0..MaxTestCount : Len(socks_nodes) * c <= MaxTotalAttempts}
    /\ idx = 1
    /\ results = <<>>
    /\ latency = NoResult
    /\ pc = "main_loop"
    /\ client = "none"
    /\ latencies = <<>>
    /\ i = 0
    /\ sent = NoneSent
    /\ session = <<>>
    /\ probed = <<>>

(***************************************************************************)
(* main: the probing loop                                                  *)
(***************************************************************************)

\* for (idx, (tag, port)) in socks_nodes.iter().enumerate(): the next
\* candidate's call of test_node_latency(*port, test_count) begins.
CallTestNodeLatency ==
    /\ pc = "main_loop"
    /\ idx <= Len(socks_nodes)
    /\ pc' = "proxy"
    /\ UNCHANGED <<mainVars, latency, client, latencies, i, sent, session>>

\* The row main pushes for the candidate at idx.
Row == [tag |-> socks_nodes[idx].tag, port |-> socks_nodes[idx].port, result |-> latency]

\* The call's result is taken by main: the history records its row and the
\* call's own history ends.
AfterCall ==
    /\ pc = "push"
    /\ probed' = Append(probed, Row)
    /\ pc' = "main_loop"
    /\ client' = "none"
    /\ sent' = NoneSent
    /\ session' = <<>>
    /\ UNCHANGED <<socks_nodes, test_count, latency, latencies, i>>

\* The rows kept by tag, as in a map: a row replaces the row of its tag.
PushResultByTag ==
    /\ AfterCall
    /\ results' = Append(SelectSeq(results, LAMBDA r : r.tag # Row.tag), Row)
    /\ idx' = idx + 1

\* A SessionError ends the probing loop, as with the ? operator.
PushResultAbortOnError ==
    /\ AfterCall
    /\ results' = Append(results, Row)
    /\ idx' = IF latency.kind = "SessionError" THEN Len(socks_nodes) + 1 ELSE idx + 1

\* A SessionError is skipped: the loop moves on without a row for it.
PushResultSkipError ==
    /\ AfterCall
    /\ results' = IF latency.kind = "SessionError" THEN results ELSE Append(results, Row)
    /\ idx' = idx + 1

\* Online ranking: the collection is sorted again after every push.
PushResultSorted ==
    /\ AfterCall
    /\ results' = sort_by(Append(results, Row))
    /\ idx' = idx + 1

\* results.push((tag.clone(), *port, latency.clone())); the loop moves on.
PushResult ==
    /\ AfterCall
    /\ results' = Append(results, Row)
    /\ idx' = idx + 1

\* The loop is over: results.sort_by(..), then the report.
SortResults ==
    /\ pc = "main_loop"
    /\ idx > Len(socks_nodes)
    /\ results' = sort_by(results)
    /\ pc' = "report"
    /\ UNCHANGED <<socks_nodes, test_count, idx, probed, latency, client, latencies, i,
                   sent, session>>

(***************************************************************************)
(* test_node_latency                                                       *)
(***************************************************************************)

\* The function returns r to main; its locals are dropped.
Return(r) ==
    /\ latency' = r
    /\ pc' = "push"
    /\ latencies' = <<>>
    /\ i' = 0

\* Proxy::all(&proxy_url) is Err(e)
ProxyErr ==
    /\ pc = "proxy"
    /\ client' = "failed"
    /\ Return(SessionError("Failed to create proxy"))
    /\ UNCHANGED <<mainVars, sent, session>>

\* Proxy::all(&proxy_url) is Ok(proxy)
ProxyOk ==
    /\ pc = "proxy"
    /\ pc' = "client"
    /\ UNCHANGED <<mainVars, latency, client, latencies, i, sent, session>>

\* A client that cannot be built counted as a session without valid samples.
ClientErrAsAllFailed ==
    /\ pc = "client"
    /\ client' = "failed"
    /\ Return(AllFailed)
    /\ UNCHANGED <<mainVars, sent, session>>

\* Client::builder()...build() is Err(e)
ClientErr ==
    /\ pc = "client"
    /\ client' = "failed"
    /\ Return(SessionError("Failed to create client"))
    /\ UNCHANGED <<mainVars, sent, session>>

\* Client::builder()...build() is Ok(client); let mut latencies = Vec::new()
ClientOk ==
    /\ pc = "client"
    /\ client' = "built"
    /\ latencies' = <<>>
    /\ pc' = "warmup"
    /\ UNCHANGED <<mainVars, latency, i, sent, session>>

\* What a request can end in: a response with a success status, a response
\* with another status, a transport error, the outer timeout.
RequestOutcomes == {"ok", "http_error", "error", "timeout"}

\* The warmup treated as an attempt: unless it succeeds it pushes INFINITY
\* and the timed loop is skipped.
WarmupCounted ==
    /\ pc = "warmup"
    /\ \E outcome \in RequestOutcomes :
        /\ sent' = [sent EXCEPT !.warmup = @ + 1]
        /\ i' = 0
        /\ IF outcome = "ok"
           THEN pc' = "attempt" /\ UNCHANGED latencies
           ELSE pc' = "process" /\ latencies' = Append(latencies, INFINITY)
    /\ UNCHANGED <<mainVars, latency, client, session>>

\* let _ = timeout(warmup_timeout, client.head(url).send()).await
Warmup ==
    /\ pc = "warmup"
    /\ \E outcome \in RequestOutcomes :
        /\ sent' = [sent EXCEPT !.warmup = @ + 1]
        /\ i' = 0
        /\ pc' = "attempt"
    /\ UNCHANGED <<mainVars, latency, client, latencies, session>>

\* The loop bound taken inclusively: one more request than test_count.
IssueTimedInclusive ==
    /\ pc = "attempt"
    /\ i <= test_count
    /\ sent' = [sent EXCEPT !.timed = @ + 1]

\* The timed request of loop variable i is issued.
IssueTimed ==
    /\ pc = "attempt"
    /\ i < test_count
    /\ sent' = [sent EXCEPT !.timed = @ + 1]

\* Ok(Ok(response)) with a success status after `us` microseconds: the
\* elapsed milliseconds are pushed and the loop goes on.
AttemptOk ==
    /\ IssueTimed
    /\ \E us \in Micros :
        /\ latencies' = Append(latencies, elapsed_ms[us])
        /\ session' = Append(session, Timed(us))
    /\ i' = i + 1
    /\ UNCHANGED <<mainVars, latency, client, pc>>

\* The failing arm without its break: the loop goes on to the next attempt.
PushInfinityAndContinue ==
    /\ latencies' = Append(latencies, INFINITY)
    /\ i' = i + 1
    /\ UNCHANGED pc

\* latencies.push(f64::INFINITY); ...; break
PushInfinityAndBreak ==
    /\ latencies' = Append(latencies, INFINITY)
    /\ pc' = "process"
    /\ UNCHANGED i

\* Ok(Ok(response)) with !response.status().is_success()
AttemptHttpError ==
    /\ IssueTimed
    /\ PushInfinityAndBreak
    /\ session' = Append(session, FailedAttempt)
    /\ UNCHANGED <<mainVars, latency, client>>

\* Ok(Err(e)): a connect error, a request timeout or another transport error
AttemptTransportError ==
    /\ IssueTimed
    /\ \E e \in {"connect", "timeout", "other"} : PushInfinityAndBreak
    /\ session' = Append(session, FailedAttempt)
    /\ UNCHANGED <<mainVars, latency, client>>

\* The request without a bound on its time: it is issued and stays pending.
AttemptNeverResolves ==
    /\ IssueTimed
    /\ pc' = "pending"
    /\ UNCHANGED <<mainVars, latency, client, latencies, i, session>>

\* Err(_): the outer timeout elapsed
AttemptTimeout ==
    /\ IssueTimed
    /\ PushInfinityAndBreak
    /\ session' = Append(session, FailedAttempt)
    /\ UNCHANGED <<mainVars, latency, client>>

\* for i in 0..test_count is exhausted
LoopEnd ==
    /\ pc = "attempt"
    /\ i >= test_count
    /\ pc' = "process"
    /\ UNCHANGED <<mainVars, latency, client, latencies, i, sent, session>>

\* "Process results" and return
Process ==
    /\ pc = "process"
    /\ Return(ProcessResults(latencies, test_count))
    /\ UNCHANGED <<mainVars, client, sent, session>>

Next ==
    \/ CallTestNodeLatency
    \/ ProxyErr
    \/ ProxyOk
    \/ ClientErr
    \/ ClientOk
    \/ Warmup
    \/ AttemptOk
    \/ AttemptHttpError
    \/ AttemptTransportError
    \/ AttemptTimeout
    \/ LoopEnd
    \/ Process
    \/ PushResult
    \/ SortResults

Spec == Init /\ [][Next]_vars

\* The steps that end an await or run main's own code: all of Next but
\* Process.
Resolve ==
    \/ CallTestNodeLatency
    \/ ProxyErr
    \/ ProxyOk
    \/ ClientErr
    \/ ClientOk
    \/ Warmup
    \/ AttemptOk
    \/ AttemptHttpError
    \/ AttemptTransportError
    \/ AttemptTimeout
    \/ LoopEnd
    \/ PushResult
    \/ SortResults

\* Process with the returned value left open.  Under Spec the steps of
\* Returns are the steps of Process and both are enabled exactly when
\* pc = "process"; TLC decides the enabledness of Returns without computing
\* the statistics.
Returns ==
    /\ pc = "process"
    /\ pc' = "push"
    /\ (latency' = AllFailed \/ latency'.kind \in {"Success", "Unstable"})
    /\ latencies' = <<>>
    /\ i' = 0
    /\ UNCHANGED <<mainVars, client, sent, session>>

\* Every await of a request is wrapped in tokio::time::timeout and everything
\* else is synchronous code of the one task main runs: a step that can be
\* taken is eventually taken.
FairSpec == Spec /\ WF_vars(Resolve) /\ WF_vars(Returns)

(***************************************************************************)
(* Properties                                                              *)
(***************************************************************************)

\* The Timed outcomes among the attempts of a session.
TimedOf(sess) == SelectSeq(sess, LAMBDA o : o.kind = "Timed")

\* valid: how many attempts of the session were Timed.
ValidCount(sess) == Len(TimedOf(sess))

\* The call has returned and main has not yet pushed its result.
Returned == pc = "push"

\* C1: stop on first failure.  A Failed outcome is the last one recorded: once
\* INFINITY is in latencies the loop is left (the call is at "Process
\* results"), and as long as the session's record exists a failure on
\* attempt k means k timed requests were issued and k outcomes recorded, the
\* first k - 1 of them Timed.
C1_StopOnFirstFailure ==
    /\ \A k \in 1..Len(latencies) :
          is_infinite(latencies[k]) =>
              /\ k = Len(latencies)
              /\ pc = "process"
              /\ sent.timed = k
    /\ \A k \in 1..Len(session) :
          session[k].kind = "Failed" =>
              /\ k = Len(session)
              /\ pc \in {"process", "push"}
              /\ sent.timed = k
              /\ \A j \in 1..(k - 1) : session[j].kind = "Timed"

\* A session configured for 4 attempts has failed on attempt 3.
C1_Witness ==
    /\ pc = "process"
    /\ test_count = 4
    /\ Len(latencies) = 3
    /\ is_infinite(latencies[3])
    /\ ~is_infinite(latencies[1]) /\ ~is_infinite(latencies[2])
    /\ sent.timed = 3

\* C2: a session whose client was built and that recorded no Timed outcome
\* (no outcome at all, or only a Failed one) returns exactly AllFailed.
C2_NoTimedIsAllFailed ==
    (Returned /\ client = "built" /\ ValidCount(session) = 0) => latency = AllFailed

\* A session has returned after its first attempt failed.
C2_Witness ==
    /\ Returned
    /\ client = "built"
    /\ session = <<FailedAttempt>>
    /\ latency = AllFailed

\* C3: a session with one or two Timed outcomes returns Unstable(valid,
\* test_count): the count of Timed outcomes and the configured count.
C3_FewTimedIsUnstable ==
    (Returned /\ client = "built" /\ ValidCount(session) \in 1..(MinValid - 1)) =>
        latency = Unstable(ValidCount(session), test_count)

\* Two Timed outcomes, then a Failed one, of 4 configured attempts.
C3_Witness ==
    /\ Returned
    /\ test_count = 4
    /\ Len(session) = 3
    /\ ValidCount(session) = 2
    /\ latency = Unstable(2, 4)

\* C4: a session with at least three Timed outcomes returns Success, and its
\* statistics satisfy minimum <= median <= maximum and
\* minimum <= average <= maximum.
C4_SuccessStatsOrdered ==
    (Returned /\ client = "built" /\ ValidCount(session) >= MinValid) =>
        /\ latency.kind = "Success"
        /\ F64Le(latency.minimum, latency.median)
        /\ F64Le(latency.median, latency.maximum)
        /\ F64Le(latency.minimum, latency.average)
        /\ F64Le(latency.average, latency.maximum)

\* The microseconds of the Timed outcomes that rank at 0-based position k in
\* ascending order: fewer than k + 1 are below it, at least k + 1 are not
\* above it.
MicrosAtRank(sess, k) ==
    LET t == TimedOf(sess)
        below(v) == Cardinality({j \in 1..Len(t) : t[j].us < v})
        upTo(v) == Cardinality({j \in 1..Len(t) : t[j].us <= v})
    IN  CHOOSE v \in {t[j].us : j \in 1..Len(t)} : below(v) <= k /\ k < upTo(v)

\* C5: the median of a Success is the valid duration at index floor(valid/2)
\* of the ascending order: the upper of the two middle ones for an even
\* count, never a value between them.
C5_MedianIsUpperMiddle ==
    (Returned /\ client = "built" /\ ValidCount(session) >= MinValid) =>
        /\ latency.kind = "Success"
        /\ latency.median = ElapsedMsOf(MicrosAtRank(session, ValidCount(session) \div 2))

\* Four valid samples 0.1, 0.1, 0.2, 0.2 ms in some order: the median is 0.2.
C5_Witness ==
    /\ Returned
    /\ ValidCount(session) = 4
    /\ MicrosAtRank(session, 1) = 100
    /\ MicrosAtRank(session, 2) = 200
    /\ latency.kind = "Success"
    /\ latency.median = ElapsedMsOf(200)

\* The run has reached the report: results is sorted.
Reported == pc = "report"

\* C6: after the sort every Success row precedes every row of another kind,
\* and the Success rows are in non-decreasing order of median.
C6_Ranking ==
    Reported =>
        \A a, b \in 1..Len(results) :
            a < b =>
                /\ results[b].result.kind = "Success" => results[a].result.kind = "Success"
                /\ (results[a].result.kind = "Success" /\ results[b].result.kind = "Success")
                       => F64Le(results[a].result.median, results[b].result.median)

\* Probed in the order AllFailed, Success, a faster Success; reported in the
\* reverse order.
C6_Witness ==
    /\ Reported
    /\ Len(probed) = 3
    /\ probed[1].result = AllFailed
    /\ probed[2].result.kind = "Success"
    /\ probed[3].result.kind = "Success"
    /\ F64Less(probed[3].result.median, probed[2].result.median)
    /\ results = <<probed[3], probed[2], probed[1]>>

ResultKinds == {"Success", "Unstable", "AllFailed", "SessionError"}

\* How often row r occurs in rows.
Occurrences(rows, r) == Cardinality({k \in 1..Len(rows) : rows[k] = r})

\* rows is a rearrangement of others: nothing dropped, doubled or altered.
IsPermutation(rows, others) ==
    /\ Len(rows) = Len(others)
    /\ \A k \in 1..Len(others) : Occurrences(rows, others[k]) = Occurrences(others, others[k])

\* C7: totality.  When the loop is over results holds one row per candidate,
\* in the candidates' order, each with the candidate's tag and port and one
\* of the four classifications; the sorted results are a rearrangement of
\* these rows.
C7_Totality ==
    /\ (pc = "main_loop" /\ idx > Len(socks_nodes)) =>
          /\ Len(results) = Len(socks_nodes)
          /\ \A k \in 1..Len(socks_nodes) :
                /\ results[k].tag = socks_nodes[k].tag
                /\ results[k].port = socks_nodes[k].port
                /\ results[k].result.kind \in ResultKinds
          /\ results = probed
    /\ Reported =>
          /\ Len(results) = Len(socks_nodes)
          /\ IsPermutation(results, probed)

\* Three candidates with the same tag and port, the last one a Success: three
\* rows are reported, the Success first.
C7_Witness ==
    /\ Reported
    /\ Len(socks_nodes) = 3
    /\ \A k \in 1..3 : socks_nodes[k] = socks_nodes[1]
    /\ probed[1].result = probed[2].result
    /\ probed[3].result.kind = "Success"
    /\ results = <<probed[3], probed[1], probed[2]>>

\* C8: when the proxy or the client cannot be built the call returns
\* SessionError, whatever test_count is, and has issued no request and
\* recorded no attempt.
C8_BuildFailureIsSessionError ==
    (Returned /\ client = "failed") =>
        /\ latency.kind = "SessionError"
        /\ sent = NoneSent
        /\ session = <<>>

\* The client could not be built in a call configured for 4 attempts.
C8_Witness ==
    /\ Returned
    /\ client = "failed"
    /\ test_count = 4
    /\ latency = SessionError("Failed to create client")

\* The latencies test_node_latency records for the outcomes of a session.
LatenciesOf(sess) ==
    [k \in 1..Len(sess) |->
        IF sess[k].kind = "Timed" THEN ElapsedMsOf(sess[k].us) ELSE INFINITY]

\* C9: failure is localized.  A call's result is determined by its own
\* session alone (whether its client was built, its own attempt outcomes and
\* test_count), and whatever the results were, the loop ends with a row for
\* every candidate.
C9_FailureIsLocal ==
    /\ (Returned /\ client = "built") =>
          latency = ProcessResults(LatenciesOf(session), test_count)
    /\ (Returned /\ client = "failed") => latency.kind = "SessionError"
    /\ (pc = "main_loop" /\ idx > Len(socks_nodes)) =>
          /\ Len(probed) = Len(socks_nodes)
          /\ Len(results) = Len(socks_nodes)

\* The first candidate ended in SessionError and the third, probed after an
\* AllFailed second, is a Success.
C9_Witness ==
    /\ Reported
    /\ Len(probed) = 3
    /\ probed[1].result.kind = "SessionError"
    /\ probed[2].result = AllFailed
    /\ probed[3].result.kind = "Success"

\* A call of test_node_latency is running or returning.
InCall == pc \in {"proxy", "client", "warmup", "attempt", "process", "push"}

\* C10: sequential probing.  There is one call at a time, for the candidate
\* at idx; while it runs, and whenever it has issued a request, the rows of
\* all earlier candidates are recorded, in the candidates' order, and none
\* of a later one.
C10_Sequential ==
    /\ InCall =>
          /\ idx \in 1..Len(socks_nodes)
          /\ Len(results) = idx - 1
    /\ (sent # NoneSent \/ session # <<>>) => InCall
    /\ ~Reported =>
          \A k \in 1..Len(results) :
              /\ results[k].tag = socks_nodes[k].tag
              /\ results[k].port = socks_nodes[k].port

\* The second candidate's call has issued its warmup and a timed request; the
\* first candidate's row is recorded.
C10_Witness ==
    /\ pc = "attempt"
    /\ idx = 2
    /\ sent = [warmup |-> 1, timed |-> 1]
    /\ Len(results) = 1

\* C11: warmup exclusion.  A call with a built client issues exactly one
\* warmup request, before its first timed one; after the warmup, whatever it
\* ended in, nothing is recorded and the timed loop starts; the loop is left
\* early only by a failed timed attempt; and the result is the
\* classification of the timed outcomes alone.
C11_WarmupExcluded ==
    /\ pc \in {"proxy", "client", "warmup"} => sent = NoneSent
    /\ (client = "built" /\ pc \in {"attempt", "process", "push"}) => sent.warmup = 1
    /\ sent.timed > 0 => sent.warmup = 1
    /\ (pc = "attempt" /\ i = 0) =>
          /\ latencies = <<>>
          /\ session = <<>>
          /\ sent.timed = 0
    /\ pc = "process" =>
          /\ Len(latencies) = sent.timed
          /\ latencies = LatenciesOf(session)
          /\ sent.timed < test_count => is_infinite(latencies[Len(latencies)])
    /\ (Returned /\ client = "built") =>
          latency = ProcessResults(LatenciesOf(session), test_count)

\* After the one warmup request three timed attempts succeeded: the result
\* is a Success over these three samples.
C11_Witness ==
    /\ Returned
    /\ sent = [warmup |-> 1, timed |-> 3]
    /\ ValidCount(session) = 3
    /\ latency = Statistics(LatenciesOf(session))

\* C13: ranking happens once, after all probing.  Until the report the
\* collection holds the rows in probing order, unsorted; the sort is enabled
\* only when every candidate has its row and no call is running; the report
\* is the sort of the complete probing record, and from then on no step, in
\* particular no request, is possible.
C13_RankOnceAfterProbing ==
    /\ ~Reported => results = probed
    /\ ENABLED SortResults =>
          /\ Len(results) = Len(socks_nodes)
          /\ sent = NoneSent
    /\ Reported =>
          /\ Len(probed) = Len(socks_nodes)
          /\ results = sort_by(probed)
          /\ sent = NoneSent
          /\ session = <<>>
          /\ ~ENABLED Next

\* Three candidates probed as SessionError, Success, Unstable: only the
\* report shows the Success row first.
C13_Witness ==
    /\ Reported
    /\ Len(probed) = 3
    /\ probed[1].result.kind = "SessionError"
    /\ probed[2].result.kind = "Success"
    /\ probed[3].result.kind = "Unstable"
    /\ results = <<probed[2], probed[1], probed[3]>>

\* C14: termination.  Every timed request issued has exactly one recorded
\* outcome, a call issues at most one warmup and at most test_count timed
\* requests, and the run eventually reaches the report with one row for
\* every candidate.
C14_Termination ==
    /\ [](/\ sent.warmup <= 1
          /\ sent.timed <= test_count
          /\ Len(session) = sent.timed)
    /\ <>(/\ Reported
          /\ Len(results) = Len(socks_nodes)
          /\ \A k \in 1..Len(results) : results[k].result.kind \in ResultKinds)

\* The report of three candidates whose sessions each ran all three of
\* their timed attempts.
C14_Witness ==
    /\ Reported
    /\ Len(socks_nodes) = 3
    /\ test_count = 3
    /\ \A k \in 1..3 : results[k].result.kind = "Success"

\* The recorded sequence is a run of Timed outcomes with at most one Failed
\* outcome, at its end, and is no longer than test_count; the vector holds
\* the same outcomes in the same order.
SessionShape ==
    /\ Len(session) <= test_count
    /\ Len(latencies) <= test_count
    /\ \A k \in 1..Len(session) : session[k].kind = "Failed" => k = Len(session)
    /\ \A k \in 1..Len(latencies) : is_infinite(latencies[k]) => k = Len(latencies)
    /\ pc \in {"attempt", "process"} => latencies = LatenciesOf(session)

\* A step leaves the recorded sequence alone, ends it with the call, or adds
\* the outcome of the request just issued at its end.
AppendOnly ==
    \/ session' = session
    \/ session' = <<>>
    \/ /\ sent'.timed = sent.timed + 1
       /\ Len(session') = Len(session) + 1
       /\ SubSeq(session', 1, Len(session)) = session

\* C15: session shape.  In every reachable state the recorded sequence is
\* Timed* followed by at most one Failed, of length at most test_count, and
\* every step keeps what is recorded in the order the attempts were issued.
C15_SessionShapeInvariant == []SessionShape /\ [][AppendOnly]_vars

\* A session of four attempts at its end: two different timings, a third,
\* and the failure that ended it as the last element.
C15_Witness ==
    /\ pc = "process"
    /\ test_count = 4
    /\ Len(session) = 4
    /\ session[1].us # session[2].us
    /\ session[4].kind = "Failed"
    /\ is_infinite(latencies[4])

\* k: the successful timed attempts of the session before its first
\* failure, all of them when none failed.
SuccessesBeforeFailure(sess) ==
    LET failures == {j \in 1..Len(sess) : sess[j].kind = "Failed"}
    IN  IF failures = {} THEN Len(sess)
        ELSE (CHOOSE j \in failures : \A other \in failures : j <= other) - 1

\* C16: for a call with a built client the kind of the result is determined
\* by k, which is test_count when no attempt failed: AllFailed iff k = 0,
\* Unstable iff 1 <= k <= 2, Success iff k >= 3; Success is not returned
\* when test_count < 3.
C16_KindDeterminedByK ==
    (Returned /\ client = "built") =>
        LET k == SuccessesBeforeFailure(session)
        IN  /\ (\A j \in 1..Len(session) : session[j].kind = "Timed") => k = test_count
            /\ latency.kind = "AllFailed" <=> k = 0
            /\ latency.kind = "Unstable" <=> k \in 1..(MinValid - 1)
            /\ latency.kind = "Success" <=> k >= MinValid
            /\ test_count < MinValid => latency.kind # "Success"

\* Three Timed outcomes and then a Failed one: the result is still Success.
C16_Witness ==
    /\ Returned
    /\ Len(session) = 4
    /\ SuccessesBeforeFailure(session) = 3
    /\ session[4].kind = "Failed"
    /\ latency.kind = "Success"

\* No attempt of the session failed.
NoFailure(sess) == \A j \in 1..Len(sess) : sess[j].kind = "Timed"

\* An Unstable result counts one or two valid samples, no more than its
\* total, and its total is test_count, whatever number of attempts the call
\* issued.
UnstableFields ==
    latency.kind = "Unstable" =>
        /\ latency.valid \in 1..(MinValid - 1)
        /\ latency.valid <= latency.total
        /\ latency.valid = ValidCount(session)
        /\ latency.total = test_count

\* C17 as stated: every Unstable(valid, total) has 1 <= valid <= 2,
\* valid <= total and total = test_count, and a call with test_count < 3 and
\* no failure returns Unstable(test_count, test_count).  Fails for
\* test_count = 0: no attempt is made and the call returns AllFailed.
C17_UnstableFieldsAsStated ==
    (Returned /\ client = "built") =>
        /\ UnstableFields
        /\ (test_count < MinValid /\ NoFailure(session)) =>
              latency = Unstable(test_count, test_count)

\* C17, amended: every Unstable(valid, total) has 1 <= valid <= 2,
\* valid <= total and total = test_count, and a call with
\* 1 <= test_count < 3 and no failure returns
\* Unstable(test_count, test_count); with test_count = 0 it returns
\* AllFailed.
C17_UnstableFields ==
    (Returned /\ client = "built") =>
        /\ UnstableFields
        /\ (test_count \in 1..(MinValid - 1) /\ NoFailure(session)) =>
              latency = Unstable(test_count, test_count)
        /\ test_count = 0 => latency = AllFailed

\* Both of two configured attempts succeeded: Unstable(2, 2).
C17_Witness ==
    /\ Returned
    /\ test_count = 2
    /\ Len(session) = 2
    /\ NoFailure(session)
    /\ latency = Unstable(2, 2)

\* The statistics of a Success result are finite.
FiniteStatistics(r) ==
    r.kind = "Success" =>
        /\ ~is_infinite(r.median)
        /\ ~is_infinite(r.average)
        /\ ~is_infinite(r.minimum)
        /\ ~is_infinite(r.maximum)

\* The median of Success a is below, above or the same as that of Success b,
\* and exactly one of the three: partial_cmp has an answer to unwrap.
MediansOrdered(a, b) ==
    (a.kind = "Success" /\ b.kind = "Success") =>
        /\ Cardinality({o \in {"Less", "Greater", "Equal"} :
                           partial_cmp(a.median, b.median) = o}) = 1
        /\ partial_cmp(a.median, b.median) = "Equal" <=> a.median = b.median
        /\ partial_cmp(a.median, b.median) = "Less" <=>
              partial_cmp(b.median, a.median) = "Greater"

\* C18: the sentinel never leaks.  Every Success result, the one a call has
\* just returned and those of the rows collected, has a finite median,
\* average, minimum and maximum, and any two Success results are ordered by
\* their medians.
C18_SentinelNeverLeaks ==
    /\ FiniteStatistics(latency)
    /\ \A k \in 1..Len(results) :
          /\ FiniteStatistics(results[k].result)
          /\ MediansOrdered(results[k].result, latency)
          /\ \A j \in 1..Len(results) :
                MediansOrdered(results[j].result, results[k].result)

\* A session that ended in a failure after three Timed outcomes returns
\* Success next to an earlier Success row with another median.
C18_Witness ==
    /\ Returned
    /\ Len(results) = 1
    /\ results[1].result.kind = "Success"
    /\ Len(session) = 4
    /\ session[4].kind = "Failed"
    /\ latency.kind = "Success"
    /\ latency.median # results[1].result.median

\* The rows that are not Success, in the order of `rows`.
NonSuccessRows(rows) == SelectSeq(rows, LAMBDA r : r.result.kind # "Success")

\* The Success rows of median m, in the order of `rows`.
SuccessRowsWithMedian(rows, m) ==
    SelectSeq(rows, LAMBDA r : r.result.kind = "Success" /\ r.result.median = m)

\* C19: the ranking is stable.  In the report the rows that are not Success
\* are in their probing order, and so are the Success rows of any one
\* median.
C19_StableRanking ==
    Reported =>
        /\ NonSuccessRows(results) = NonSuccessRows(probed)
        /\ \A k \in 1..Len(probed) :
              probed[k].result.kind = "Success" =>
                  SuccessRowsWithMedian(results, probed[k].result.median)
                      = SuccessRowsWithMedian(probed, probed[k].result.median)

\* Two different candidates probed with the same median after an Unstable
\* one: the report has the two in probing order, then the Unstable row.
C19_Witness ==
    /\ Reported
    /\ Len(probed) = 3
    /\ probed[1].result.kind = "Unstable"
    /\ probed[2].result.kind = "Success"
    /\ probed[3].result.kind = "Success"
    /\ probed[2].result.median = probed[3].result.median
    /\ probed[2] # probed[3]
    /\ results = <<probed[2], probed[3], probed[1]>>

====
